---- MODULE Spec2Model ----
(***************************************************************************)
(* r2pilot: model of R2Client::upload_file_multipart                       *)
(* (crates/core/src/client.rs) and of the object store calls it issues.    *)
(*                                                                         *)
(* One invocation is a linear sequence of awaited calls; every await is    *)
(* one step of the model, and the answer of the file system or of the      *)
(* store to that call is chosen nondeterministically in the same step.     *)
(* The UploadPart request and its answer are two steps, with the requests  *)
(* that are outstanding kept in `in_flight`.                               *)
(* The store calls of the running invocation are recorded in `calls` in    *)
(* the order they are issued; the upload ids handed to earlier invocations *)
(* are kept in `earlier_ids`, the sessions of the store in `sessions`.     *)
(*                                                                         *)
(* A second specification, SpecCli, models the command handlers of         *)
(* crates/cli/src/handlers.rs over the configuration file on disk          *)
(* (crates/core/src/config.rs) and the answers of the Cloudflare API       *)
(* (crates/core/src/cloudflare.rs): one run of a handler is one step,      *)
(* save_config is two (the write, then the permissions).                   *)
(* A third specification, SpecCf, models one call of CloudflareClient:     *)
(* the request, then handle_response on every status and body.             *)
(* SpecUrl models `urls generate` run twice on the same arguments with two *)
(* sets of credentials, then R2Client::generate_presigned_url              *)
(* (crates/core/src/presigned.rs); SpecDel models one call of              *)
(* R2Client::delete_objects. SpecFair is the first specification with      *)
(* every awaited call returning.                                           *)
(***************************************************************************)
EXTENDS Integers, Naturals, Sequences, FiniteSets, TLC

\* ---------------------------------------------------------------- bounds
MaxFileLen == 4
MaxChunkSize == 4
MaxInvocations == 2
\* the longest list of keys handed to delete_objects
MaxKeys == 3

\* The per-call buffer cap of client.rs:395 (100 * 1024 * 1024 bytes there),
\* scaled to the byte counts the model enumerates.
PART_LIMIT == 3

\* The file of n bytes: byte i has the value i, so that every byte of a payload
\* identifies the offset it was read from (the zero fill of a buffer is 0).
FileOfLen(n) == [i \in 1..n |-> i]
ETags == {"etag-a", "etag-b"}

\* MultipartUploadConfig::default(): concurrent_parts: 5
DEFAULT_CONCURRENT_PARTS == 5

NoId == 0
NoETag == "none"

\* ---------------------------------------------------------------- state
VARIABLES
    file,          \* content of the file at file_path
    chunk_size,    \* config.chunk_size
    concurrent_parts, \* config.concurrent_parts
    inv,           \* number of the current invocation of upload_file_multipart
    pc,            \* position of the invocation
    upload_id,     \* local upload_id (NoId before create_multipart_upload)
    parts,         \* local Vec<CompletedPart>
    current_part,  \* local current_part
    pos,           \* cursor of the file handle opened at line 389
    buffer,        \* the chunk read in the current iteration
    in_flight,     \* part numbers of the UploadPart requests sent and not yet answered
    pending,       \* the error e of a failed upload_part awaiting the abort
    result,        \* return value of the invocation
    calls,         \* store calls issued by this invocation, in order
    earlier_ids,   \* upload ids the store returned to earlier invocations
    sessions,      \* store side: status of every upload session, by id
    config_file,   \* ~/.config/r2pilot/config.toml on disk
    cli_pc,        \* position of the running command
    run,           \* what the running (or last) command did
    cf_pc,         \* position of one CloudflareClient call
    cf_call,       \* the call: its operation, the response, what it returned
    url_pc,        \* position of the two runs of urls generate
    url_in,        \* their arguments, configuration and clock
    url_out,       \* what each run returned
    del_pc,        \* position of one call of delete_objects
    del_keys,      \* its argument keys
    del_next,      \* index of the key the loop is at
    del_objects,   \* store side: the keys that hold an object
    del_calls,     \* the DeleteObject requests issued, in order
    del_result     \* return value of delete_objects

uploadVars == <<file, chunk_size, concurrent_parts, inv, pc, upload_id, parts,
                current_part, pos, buffer, in_flight, pending, result, calls,
                earlier_ids, sessions>>

cliVars == <<config_file, cli_pc, run>>

cfVars == <<cf_pc, cf_call>>

urlVars == <<url_pc, url_in, url_out>>

delVars == <<del_pc, del_keys, del_next, del_objects, del_calls, del_result>>

notUpload == <<cliVars, cfVars, urlVars, delVars>>
notCli == <<uploadVars, cfVars, urlVars, delVars>>
notCf == <<uploadVars, cliVars, urlVars, delVars>>
notUrl == <<uploadVars, cliVars, cfVars, delVars>>
notDel == <<uploadVars, cliVars, cfVars, urlVars>>

vars == <<uploadVars, cliVars, cfVars, urlVars, delVars>>

\* ---------------------------------------------------------------- helpers
Min(a, b) == IF a <= b THEN a ELSE b

Ok == [tag |-> "Ok", kind |-> "none", origin |-> "none"]
Err(kind, origin) == [tag |-> "Err", kind |-> kind, origin |-> origin]
NoResult == [tag |-> "none", kind |-> "none", origin |-> "none"]

\* variant: the part count is not computed, a zero chunk size goes through
TotalPartsPanics_Never(c) == FALSE

\* let _total_parts = (file_size as usize + config.chunk_size - 1) / config.chunk_size;
\* a zero chunk size panics (division by zero).
TotalPartsPanics(c) == c = 0
TotalParts(file_size, c) == (file_size + c - 1) \div c

\* variant: the buffer takes the configured size without the cap
BufferLen_NoClamp(c) == c

\* vec![0u8; config.chunk_size.min(100 * 1024 * 1024)]
BufferLen(c) == Min(c, PART_LIMIT)
ZeroBuffer(len) == [i \in 1..len |-> 0]

\* file.read(&mut buffer): at end of file (or with an empty buffer) it returns
\* 0; otherwise it returns any n with 1 <= n <= min(buffer.len(), remaining).
ReadSizes(buflen, remaining) ==
    IF buflen = 0 \/ remaining = 0 THEN {0} ELSE 1..Min(buflen, remaining)

\* the n bytes read are copied to the front of the buffer
ReadInto(buf, f, p, n) ==
    [i \in 1..Len(buf) |-> IF i <= n THEN f[p + i] ELSE buf[i]]

\* variant: the cursor stays where it was, the same bytes are read again
Advance_Stay(p, n) == p

\* file.read moves the cursor of the file handle past the n bytes it returned
Advance(p, n) == p + n

\* variant: the loop does not stop on a zero-byte read
EndOfFile_Never(n) == FALSE

\* if n == 0 { break; }
EndOfFile(n) == n = 0

\* variant: the buffer is sent at its full length
Truncate_Keep(buf, n) == buf

\* buffer.truncate(n)
Truncate(buf, n) == SubSeq(buf, 1, Min(n, Len(buf)))

\* current_part += 1
NextPart(cp) == cp + 1

\* variant: the completed part is recorded under a zero-based number
CompletedPart_ZeroBased(part_number, etag) ==
    [part_number |-> part_number - 1, etag |-> etag]

\* CompletedPart { part_number, etag }
CompletedPart(part_number, etag) == [part_number |-> part_number, etag |-> etag]

\* variant: the loop goes on reading while fewer than concurrent_parts requests
\* are outstanding
SendNext_FanOut(outstanding, limit) ==
    IF Cardinality(outstanding) < limit THEN "read" ELSE "await_part"

\* self.upload_part(..).await: the loop waits for the answer to the request it
\* has just sent, whatever config.concurrent_parts is
SendNext(outstanding, limit) == "await_part"

\* variant: the error of the create call is dropped and the loop is entered
OnCreateError_Continue == "reopen"

\* create_multipart_upload(key, content_type).await?
\* the `?` hands the error of the create call to the caller at once
OnCreateError == "returned"

\* variant: the failed part is sent again
OnPartError_Retry == "upload"

\* Err(e) => { let _ = self.abort_multipart_upload(..).await; return Err(e); }
\* a failed part leads to the abort call, not back into the loop
OnPartError == "abort"

\* variant: the abort is awaited with `?`, so its error is the one returned
PropagatedError_AbortWins(e, abort_result) ==
    IF abort_result.tag = "Err" THEN abort_result ELSE e

\* let _ = self.abort_multipart_upload(..).await; return Err(e);
\* the result of the abort is discarded and e is returned
PropagatedError(e, abort_result) == e

\* variant: the error arm leaves the loop and falls through to the completion
AfterAbort_FallThrough == "complete"

\* return Err(e): the function returns right after the abort call
AfterAbort == "returned"

\* one entry of the call log
Call(op, id, pn, body, ps, res, etag) ==
    [op |-> op, upload_id |-> id, part_number |-> pn,
     body |-> body, parts |-> ps, result |-> res, etag |-> etag]

\* ---------------------------------------------------------------- config.rs
\* Option<T>
None == <<>>
Some(v) == <<v>>
IsSome(o) == o # None
Unwrap(o) == o[1]

\* validate_config: account_id.len() != 32
ACCOUNT_ID_LEN == 32
\* validate_config: default_expiration > 604800
MAX_EXPIRATION == 604800
\* default_expiration(): 7200
DEFAULT_EXPIRATION == 7200
\* default_multipart_chunk_size(): 100
DEFAULT_CHUNK_SIZE_MB == 100
\* save_config: perms.set_mode(0o600)
OWNER_ONLY == 384

AccountIdOfLen(n) == [i \in 1..n |-> "a"]

\* struct CloudflareConfig, struct R2Config, struct AdvancedConfig, struct ConfigFile
CloudflareConfig(account_id, api_token, access_key_id, secret_access_key) ==
    [account_id |-> account_id, api_token |-> api_token,
     access_key_id |-> access_key_id, secret_access_key |-> secret_access_key]
R2Config(default_bucket, default_expiration) ==
    [default_bucket |-> default_bucket, default_expiration |-> default_expiration]
AdvancedConfig(max_concurrent_uploads, multipart_chunk_size_mb) ==
    [max_concurrent_uploads |-> max_concurrent_uploads,
     multipart_chunk_size_mb |-> multipart_chunk_size_mb]
ConfigFile(cloudflare, r2, advanced) ==
    [cloudflare |-> cloudflare, r2 |-> r2, advanced |-> advanced]

\* impl Default for AdvancedConfig
AdvancedDefault == AdvancedConfig(DEFAULT_CONCURRENT_PARTS, DEFAULT_CHUNK_SIZE_MB)

\* the configurations a config.toml of the model can hold
AccountIds == {AccountIdOfLen(5), AccountIdOfLen(ACCOUNT_ID_LEN),
               AccountIdOfLen(ACCOUNT_ID_LEN + 1)}
Buckets == {"", "my-bucket"}
Expirations == {DEFAULT_EXPIRATION, MAX_EXPIRATION, MAX_EXPIRATION + 1}
Advanceds == {None, Some(AdvancedConfig(1, 0)), Some(AdvancedConfig(2, 1)),
              Some(AdvancedConfig(DEFAULT_CONCURRENT_PARTS, 200))}
Configs ==
    {ConfigFile(CloudflareConfig(a, t, k, sk), R2Config(b, e), adv) :
        a \in AccountIds, t \in {None, Some("eyJ-token")},
        k \in {None, Some("key-id")}, sk \in {None, Some("secret-key")},
        b \in Buckets, e \in Expirations, adv \in Advanceds}

\* the value the model keeps where no configuration is held
BlankConfig ==
    ConfigFile(CloudflareConfig(<<>>, None, None, None), R2Config("", 0), None)

\* the file on disk: absent, present with a content toml cannot parse into
\* ConfigFile, or present holding a ConfigFile; mode is its permission bits
FileModes == {OWNER_ONLY, 420}
AbsentFile == [exists |-> FALSE, parses |-> FALSE, config |-> BlankConfig, mode |-> 0]
PresentFile(parses, config, mode) ==
    [exists |-> TRUE, parses |-> parses, config |-> config, mode |-> mode]
ConfigFiles ==
    {AbsentFile}
    \cup {PresentFile(FALSE, BlankConfig, m) : m \in FileModes}
    \cup {PresentFile(TRUE, c, m) : c \in Configs, m \in FileModes}

\* load_config(): ConfigNotFound when the file is absent, InvalidConfig when it
\* cannot be read or parsed, the parsed ConfigFile otherwise
load_config(cf) ==
    IF ~cf.exists THEN [result |-> Err("ConfigNotFound", "load_config"), config |-> BlankConfig]
    ELSE IF ~cf.parses THEN [result |-> Err("InvalidConfig", "load_config"), config |-> BlankConfig]
    ELSE [result |-> Ok, config |-> cf.config]

\* variant: an expiration of exactly seven days is rejected too
ExpirationTooLong_Inclusive(e) == e >= MAX_EXPIRATION

\* config.r2.default_expiration > 604800
ExpirationTooLong(e) == e > MAX_EXPIRATION

\* validate_config(config), with its early returns in source order
validate_config(config) ==
    IF Len(config.cloudflare.account_id) # ACCOUNT_ID_LEN
    THEN Err("InvalidInput", "account_id")
    ELSE LET has_api_token == IsSome(config.cloudflare.api_token)
             has_access_keys == /\ IsSome(config.cloudflare.access_key_id)
                                /\ IsSome(config.cloudflare.secret_access_key)
         IN IF ~has_api_token /\ ~has_access_keys
            THEN Err("Config", "authentication")
            ELSE IF config.r2.default_bucket = ""
            THEN Err("InvalidInput", "default_bucket")
            ELSE IF ExpirationTooLong(config.r2.default_expiration)
            THEN Err("InvalidInput", "default_expiration")
            ELSE Ok

\* ---------------------------------------------------------------- cloudflare.rs
\* the calls of CloudflareClient the commands use; the ones that decode the
\* envelope's result as () are handle_response::<()>
UnitOps == {"revoke_token", "delete_bucket", "put_bucket_cors", "delete_bucket_cors",
            "put_bucket_lifecycle", "delete_bucket_lifecycle",
            "put_bucket_website", "delete_bucket_website"}
ValueOps == {"list_tokens", "create_token", "list_buckets", "create_bucket",
             "get_bucket_cors", "get_bucket_lifecycle", "get_bucket_website"}
CfOps == UnitOps \cup ValueOps
ResultType(op) == IF op \in UnitOps THEN "unit" ELSE "value"

\* a response: its status and its body. A body is either no CloudflareResponse
\* at all (not JSON, or a field missing), or the JSON envelope with its
\* success flag, the messages of its errors and its result, which is JSON
\* null or a JSON value of the shape the operation returns
Statuses == {199, 200, 299, 300, 401, 403, 404, 500}
ErrorLists == {<<>>, <<"m1">>, <<"m1", "m2">>}
NotAnEnvelope == [envelope |-> FALSE, success |-> FALSE, errors |-> <<>>, result |-> "null"]
Envelope(success, errors, res) ==
    [envelope |-> TRUE, success |-> success, errors |-> errors, result |-> res]
Bodies ==
    {NotAnEnvelope}
    \cup {Envelope(s, e, r) : s \in BOOLEAN, e \in ErrorLists, r \in {"null", "value"}}
Response(status, body) == [status |-> status, body |-> body]
Responses == {Response(st, b) : st \in Statuses, b \in Bodies}
NoResponse == Response(0, NotAnEnvelope)

\* status.is_success()
is_success(status) == 200 <= status /\ status <= 299

\* response.json::<CloudflareResponse<T>>(): every field must decode, the
\* result as T; () decodes from null only, a struct or a Vec from a value only
Decodes(T, body) ==
    /\ body.envelope
    /\ (T = "unit") <=> (body.result = "null")

\* errors.into_iter().map(|e| e.message).collect::<Vec<_>>().join("; ")
JoinErrors(errors) ==
    [i \in 1..(IF errors = <<>> THEN 0 ELSE 2 * Len(errors) - 1) |->
        IF i % 2 = 1 THEN errors[(i + 1) \div 2] ELSE "; "]

\* what a call returns: the Result, the value inside Ok, and the text and
\* status inside the error
Outcome(res, value, message, http) ==
    [result |-> res, value |-> value, message |-> message, http |-> http]
NoOutcome == Outcome(NoResult, "none", <<>>, 0)

\* CloudflareClient::handle_response::<T>(response)
handle_response(T, response) ==
    IF is_success(response.status)
    THEN IF ~Decodes(T, response.body)
         THEN Outcome(Err("Network", "json"), "none", <<>>, 0)
         ELSE IF response.body.success
         THEN Outcome(Ok, response.body.result, <<>>, 0)
         ELSE Outcome(Err("CloudflareApi", "envelope"), "none",
                      JoinErrors(response.body.errors), 0)
    ELSE IF response.status = 401
    THEN Outcome(Err("Authentication", "status"), "none", <<"Invalid API token">>, 0)
    ELSE IF response.status = 403
    THEN Outcome(Err("PermissionDenied", "status"), "none", <<"Insufficient permissions">>, 0)
    ELSE IF response.status = 404
    THEN Outcome(Err("NotFound", "status"), "none", <<"Resource not found">>, 0)
    ELSE Outcome(Err("CloudflareApi", "status"), "none", <<"HTTP">>, response.status)

\* impl From<reqwest::Error> for Error, for a request that got no response
SendErrors == {Err("Timeout", "send"), Err("Network", "send"), Err("HttpClient", "send")}

\* the Results a call of op can return
CfResults(op) ==
    SendErrors \cup {handle_response(ResultType(op), resp).result : resp \in Responses}

\* ---------------------------------------------------------------- handlers.rs
Panic(origin) == [tag |-> "panic", kind |-> "panic", origin |-> origin]

\* client.rs requires_multipart_upload: file_size > 100 * 1024 * 1024
MULTIPART_THRESHOLD == 100 * 1024 * 1024
MIB == 1024 * 1024

\* variant: a file of exactly the threshold size goes multipart too
requires_multipart_upload_Inclusive(file_size) == file_size >= MULTIPART_THRESHOLD

\* client.rs requires_multipart_upload(file_size)
requires_multipart_upload(file_size) == file_size > MULTIPART_THRESHOLD

\* Option<AdvancedConfig>::unwrap_or_default()
unwrap_or_default(advanced) == IF IsSome(advanced) THEN Unwrap(advanced) ELSE AdvancedDefault

\* how handle_files "upload" sent the file
NoUpload ==
    [route |-> "none", file_size |-> 0, multipart |-> FALSE,
     chunk_size |-> 0, concurrent_parts |-> 0]

\* what one run of a command did: the configuration it loaded, the result of
\* validate_config when it called it, the network calls it issued, in order,
\* the route an upload took, the file fs::write left (created or
\* overwritten, and its mode then), and what it returned
NoRun ==
    [cmd |-> "none", action |-> "none", loaded |-> FALSE, config |-> BlankConfig,
     validation |-> NoResult, net_calls |-> <<>>, upload |-> NoUpload,
     written |-> "none", written_mode |-> 0, result |-> NoResult,
     name |-> None]

Started(cmd, action) == [NoRun EXCEPT !.cmd = cmd, !.action = action]
Running(r) == r.result = NoResult

\* return Ok(()) / return Err(..) / a panic; once the run has returned,
\* nothing after it is executed
Finished(r, res) == IF Running(r) THEN [r EXCEPT !.result = res] ELSE r

\* let config = load_config()?
Loaded(r, ld) ==
    IF ~Running(r) THEN r
    ELSE IF ld.result = Ok
    THEN [r EXCEPT !.loaded = TRUE, !.config = ld.config]
    ELSE [r EXCEPT !.result = ld.result]

\* validate_config(&config)?
Validated(r) ==
    IF ~Running(r) THEN r
    ELSE LET v == validate_config(r.config)
         IN IF v = Ok THEN [r EXCEPT !.validation = v]
                      ELSE [r EXCEPT !.validation = v, !.result = v]

\* one S3 call through R2Client: issued, then answered Ok or with an error
S3Outcomes(op) == {Ok, Err("R2Operation", op)}
S3Call(r, op, res) ==
    IF ~Running(r) THEN r
    ELSE IF res = Ok THEN [r EXCEPT !.net_calls = Append(@, op)]
    ELSE [r EXCEPT !.net_calls = Append(@, op), !.result = res]

\* one call through CloudflareClient: issued, its response handled
CfCall(r, op, res) ==
    IF ~Running(r) THEN r
    ELSE IF res = Ok THEN [r EXCEPT !.net_calls = Append(@, op)]
    ELSE [r EXCEPT !.net_calls = Append(@, op), !.result = res]

\* config.cloudflare.api_token.clone().ok_or_else(..)?
TokenOrError(r) ==
    IF ~Running(r) THEN r
    ELSE IF IsSome(r.config.cloudflare.api_token) THEN r
    ELSE Finished(r, Err("anyhow", "api_token_required"))

\* the access keys: an api_token is refused, each key is taken with
\* ok_or_else (handle_config "validate", handle_buckets "info" | "ls")
KeysOrError(r) ==
    IF ~Running(r) THEN r
    ELSE IF IsSome(r.config.cloudflare.api_token)
    THEN Finished(r, Err("anyhow", "api_token_not_supported"))
    ELSE IF ~IsSome(r.config.cloudflare.access_key_id)
    THEN Finished(r, Err("anyhow", "access_key_id"))
    ELSE IF ~IsSome(r.config.cloudflare.secret_access_key)
    THEN Finished(r, Err("anyhow", "secret_access_key"))
    ELSE r

\* variant: the access keys are used whenever both are present, token or not
KeysOrPanic_PreferKeys(r) ==
    IF ~Running(r) THEN r
    ELSE IF IsSome(r.config.cloudflare.access_key_id)
            /\ IsSome(r.config.cloudflare.secret_access_key)
    THEN r
    ELSE IF IsSome(r.config.cloudflare.api_token)
    THEN Finished(r, Err("anyhow", "api_token_not_supported"))
    ELSE Finished(r, Panic("unwrap"))

\* the access keys: an api_token is refused, each key is taken with unwrap()
\* (handle_files, handle_doctor "test-connection")
KeysOrPanic(r) ==
    IF ~Running(r) THEN r
    ELSE IF IsSome(r.config.cloudflare.api_token)
    THEN Finished(r, Err("anyhow", "api_token_not_supported"))
    ELSE IF ~IsSome(r.config.cloudflare.access_key_id)
            \/ ~IsSome(r.config.cloudflare.secret_access_key)
    THEN Finished(r, Panic("unwrap"))
    ELSE r

\* an argument the command line may leave out: arg.ok_or_else(..)?
Required(r, given, what) ==
    IF given THEN r ELSE Finished(r, Err("anyhow", what))

\* ---------------------------------------------------------------- presigned.rs
\* an endpoint string as http::Uri reads it: whether it parses, and its host
Endpoint(parses, host) == [parses |-> parses, host |-> host]
Endpoints == {Endpoint(TRUE, Some("acc.r2.cloudflarestorage.com")),
              Endpoint(TRUE, Some("localhost")),
              Endpoint(TRUE, None),
              Endpoint(FALSE, None)}

\* enum PresignedMethod, and the match of handle_urls on method.to_lowercase()
Methods == {"GET", "PUT", "DELETE"}
MethodArgs == {"get", "PUT", "delete", "post"}
ParseMethod(method) ==
    CASE method \in {"get", "GET"} -> Some("GET")
      [] method \in {"put", "PUT"} -> Some("PUT")
      [] method \in {"delete", "DELETE"} -> Some("DELETE")
      [] OTHER -> None

\* struct PresignedUrlConfig
PresignedUrlConfig(method, key, expires_in, content_type) ==
    [method |-> method, key |-> key, expires_in |-> expires_in,
     content_type |-> content_type]

\* Result<String>; a URL is the sequence of the pieces the format! calls put
\* together, the separators '?' and '&' being pieces of their own
UrlOk(url) == [result |-> Ok, url |-> url]
UrlErr(kind, origin) == [result |-> Err(kind, origin), url |-> <<>>]
NoUrl == [result |-> NoResult, url |-> <<>>]

\* match config.method { Get => url, Put => "{}?method=PUT", Delete => .. }
WithMethod(url, method) ==
    CASE method = "GET" -> url
      [] method = "PUT" -> url \o <<"?", "method=PUT">>
      [] OTHER -> url \o <<"?", "method=DELETE">>

\* presigned::generate_presigned_url; now is the clock in seconds since the
\* epoch, negative when the clock is before it (duration_since fails)
generate_presigned_url(endpoint, bucket, key, config, now) ==
    IF ~endpoint.parses THEN UrlErr("PresignedUrlConfig", "endpoint")
    ELSE IF ~IsSome(endpoint.host) THEN UrlErr("PresignedUrlConfig", "host")
    ELSE IF now < 0 THEN UrlErr("PresignedUrlConfig", "time")
    ELSE LET url == <<"https://", Unwrap(endpoint.host), "/", bucket, "/", key>>
             expires_timestamp == now + config.expires_in
         IN UrlOk(WithMethod(url, config.method)
                     \o <<"&", "expires=", ToString(expires_timestamp)>>)

\* R2Client::generate_presigned_url (client.rs), on self.endpoint, self.bucket
R2Client_generate_presigned_url(endpoint, bucket, key, expires_in, now) ==
    IF ~endpoint.parses THEN UrlErr("InvalidConfig", "endpoint")
    ELSE IF ~IsSome(endpoint.host) THEN UrlErr("InvalidConfig", "host")
    ELSE IF now < 0 THEN UrlErr("R2Operation", "time")
    ELSE LET url == <<"https://", Unwrap(endpoint.host), "/", bucket, "/", key>>
             expires_timestamp == now + expires_in
         IN UrlOk(url \o <<"?", "expires=", ToString(expires_timestamp)>>)

\* the credentials of a configuration, and the part of a loaded ConfigFile
\* handle_urls has at hand
Credentials(api_token, access_key_id, secret_access_key) ==
    [api_token |-> api_token, access_key_id |-> access_key_id,
     secret_access_key |-> secret_access_key]
CredentialSets == {Credentials(Some("eyJ-token"), None, None),
                   Credentials(None, Some("key-id"), Some("secret-key")),
                   Credentials(None, Some("key-id-2"), Some("secret-key-2"))}
UrlsConfig(endpoint, credentials, default_bucket) ==
    [endpoint |-> endpoint, credentials |-> credentials,
     default_bucket |-> default_bucket]

\* variant: the URL is signed with the configured secret
UrlsGenerate_Signed(config, key, method, expires, content_type, now) ==
    LET u == IF ~IsSome(key) THEN UrlErr("anyhow", "key")
             ELSE IF ~IsSome(ParseMethod(method)) THEN UrlErr("anyhow", "method")
             ELSE generate_presigned_url(config.endpoint, config.default_bucket,
                      Unwrap(key),
                      PresignedUrlConfig(Unwrap(ParseMethod(method)), Unwrap(key),
                                         expires, content_type),
                      now)
        secret == IF IsSome(config.credentials.api_token)
                  THEN Unwrap(config.credentials.api_token)
                  ELSE Unwrap(config.credentials.secret_access_key)
    IN IF u.result = Ok THEN UrlOk(u.url \o <<"&", "signature=", secret>>) ELSE u

\* handle_urls "generate", from the loaded configuration on
UrlsGenerate(config, key, method, expires, content_type, now) ==
    IF ~IsSome(key) THEN UrlErr("anyhow", "key")
    ELSE IF ~IsSome(ParseMethod(method)) THEN UrlErr("anyhow", "method")
    ELSE generate_presigned_url(config.endpoint, config.default_bucket, Unwrap(key),
             PresignedUrlConfig(Unwrap(ParseMethod(method)), Unwrap(key), expires,
                                content_type),
             now)

NoUrlInput ==
    [endpoint |-> Endpoint(FALSE, None), default_bucket |-> "",
     credentials |-> <<>>, key |-> "", method |-> "", expires |-> 0,
     content_type |-> None, now |-> 0]

UrlIdle ==
    /\ url_pc = "unused"
    /\ url_in = NoUrlInput
    /\ url_out = [first |-> NoUrl, second |-> NoUrl, client |-> NoUrl]

\* ---------------------------------------------------------------- Init
UploadIdle ==
    /\ file = <<>>
    /\ chunk_size = 1
    /\ concurrent_parts = 1
    /\ inv = 1
    /\ pc = "unused"
    /\ upload_id = NoId
    /\ parts = <<>>
    /\ current_part = 0
    /\ pos = 0
    /\ buffer = <<>>
    /\ in_flight = {}
    /\ pending = NoResult
    /\ result = NoResult
    /\ calls = <<>>
    /\ earlier_ids = {}
    /\ sessions = <<>>

CliIdle ==
    /\ config_file = AbsentFile
    /\ cli_pc = "unused"
    /\ run = NoRun

CfIdle ==
    /\ cf_pc = "unused"
    /\ cf_call = [op |-> "none", response |-> NoResponse, outcome |-> NoOutcome]

DelIdle ==
    /\ del_pc = "unused"
    /\ del_keys = <<>>
    /\ del_next = 0
    /\ del_objects = {}
    /\ del_calls = <<>>
    /\ del_result = NoResult

Init ==
    /\ UrlIdle
    /\ DelIdle
    /\ CliIdle
    /\ CfIdle
    /\ file \in {FileOfLen(n) : n \in 0..MaxFileLen}
    /\ chunk_size \in 0..MaxChunkSize
    /\ concurrent_parts \in {0, 1, 2, DEFAULT_CONCURRENT_PARTS}
    /\ inv = 1
    /\ pc = "open"
    /\ upload_id = NoId
    /\ parts = <<>>
    /\ current_part = 0
    /\ pos = 0
    /\ buffer = <<>>
    /\ in_flight = {}
    /\ pending = NoResult
    /\ result = NoResult
    /\ calls = <<>>
    /\ earlier_ids = {}
    /\ sessions = <<>>

Return(r) ==
    /\ result' = r
    /\ pc' = "returned"

\* ---------------------------------------------------------------- actions
\* lines 373-379: open the file, read its metadata, compute _total_parts
OpenFile ==
    /\ pc = "open"
    /\ \/ Return(Err("Io", "open"))
       \/ \* the division panics: the invocation unwinds and returns nothing
          /\ TotalPartsPanics(chunk_size)
          /\ pc' = "panicked"
          /\ UNCHANGED result
       \/ /\ ~TotalPartsPanics(chunk_size)
          /\ pc' = "create"
          /\ UNCHANGED result
    /\ UNCHANGED <<file, chunk_size, concurrent_parts, inv, upload_id, parts,
                   current_part, pos, buffer, in_flight, pending, calls,
                   earlier_ids, sessions, notUpload>>

\* variant: an invocation resumes the latest session of the store when there is
\* one instead of opening its own
CreateMultipartUpload_Resume ==
    /\ pc = "create"
    /\ IF Len(sessions) > 0
       THEN /\ upload_id' = Len(sessions)
            /\ UNCHANGED <<calls, sessions>>
       ELSE /\ sessions' = Append(sessions, "open")
            /\ upload_id' = 1
            /\ calls' = Append(calls, Call("Create", 1, 0, <<>>, <<>>, Ok, NoETag))
    /\ pc' = "reopen"
    /\ UNCHANGED <<file, chunk_size, concurrent_parts, inv, parts,
                   current_part, pos, buffer, in_flight, pending, result,
                   earlier_ids, notUpload>>

\* lines 381-382 and 269-283: create_multipart_upload(key, content_type).await?
CreateMultipartUpload ==
    /\ pc = "create"
    /\ \/ \* the request fails
          /\ calls' = Append(calls, Call("Create", NoId, 0, <<>>, <<>>,
                                         Err("R2Operation", "Create"), NoETag))
          /\ result' = Err("R2Operation", "Create")
          /\ pc' = OnCreateError
          /\ UNCHANGED <<upload_id, sessions>>
       \/ \* the response carries no upload id
          /\ calls' = Append(calls, Call("Create", NoId, 0, <<>>, <<>>,
                                         Err("MultipartUpload", "Create"), NoETag))
          /\ result' = Err("MultipartUpload", "Create")
          /\ pc' = OnCreateError
          /\ UNCHANGED <<upload_id, sessions>>
       \/ \* the store opens a new session and returns its id
          /\ LET id == Len(sessions) + 1 IN
             /\ sessions' = Append(sessions, "open")
             /\ upload_id' = id
             /\ calls' = Append(calls, Call("Create", id, 0, <<>>, <<>>, Ok, NoETag))
          /\ pc' = "reopen"
          /\ UNCHANGED result
    /\ UNCHANGED <<file, chunk_size, concurrent_parts, inv, parts,
                   current_part, pos, buffer, in_flight, pending, earlier_ids,
                   notUpload>>

\* lines 384-389: parts = Vec::new(); current_part = 0; File::open(file_path)?
ReopenFile ==
    /\ pc = "reopen"
    /\ parts' = <<>>
    /\ current_part' = 0
    /\ \/ /\ Return(Err("Io", "reopen"))
          /\ UNCHANGED pos
       \/ /\ pos' = 0
          /\ pc' = "read"
          /\ UNCHANGED result
    /\ UNCHANGED <<file, chunk_size, concurrent_parts, inv, upload_id, buffer,
                   in_flight, pending, calls, earlier_ids, sessions,
                   notUpload>>

\* lines 391-402: current_part += 1; read a chunk; break on n == 0; truncate
ReadChunk ==
    /\ pc = "read"
    /\ current_part' = NextPart(current_part)
    /\ \/ /\ Return(Err("Io", "read"))
          /\ UNCHANGED <<pos, buffer>>
       \/ \E n \in ReadSizes(BufferLen(chunk_size), Len(file) - pos) :
            /\ pos' = Advance(pos, n)
            /\ IF EndOfFile(n)
               THEN /\ pc' = "complete"
                    /\ UNCHANGED buffer
               ELSE /\ pc' = "upload"
                    /\ buffer' = Truncate(ReadInto(ZeroBuffer(BufferLen(chunk_size)),
                                                   file, pos, n), n)
            /\ UNCHANGED result
    /\ UNCHANGED <<file, chunk_size, concurrent_parts, inv, upload_id, parts,
                   in_flight, pending, calls, earlier_ids, sessions,
                   notUpload>>

\* lines 405 and 293-301: the UploadPart request for current_part is sent
SendUploadPart ==
    /\ pc = "upload"
    /\ in_flight' = in_flight \cup {current_part}
    /\ pc' = SendNext(in_flight', concurrent_parts)
    /\ UNCHANGED <<file, chunk_size, concurrent_parts, inv, upload_id, parts,
                   current_part, pos, buffer, pending, result, calls,
                   earlier_ids, sessions, notUpload>>

\* lines 404-412 and 302-313: the answer to the request arrives
UploadPart ==
    /\ pc = "await_part"
    /\ current_part \in in_flight
    /\ in_flight' = in_flight \ {current_part}
    /\ \/ \* Ok(part) => parts.push(part)
          \E etag \in ETags :
            /\ calls' = Append(calls, Call("UploadPart", upload_id, current_part,
                                           buffer, <<>>, Ok, etag))
            /\ parts' = Append(parts, CompletedPart(current_part, etag))
            /\ pc' = "read"
            /\ UNCHANGED pending
       \/ \* the request fails
          /\ calls' = Append(calls, Call("UploadPart", upload_id, current_part,
                                         buffer, <<>>,
                                         Err("R2Operation", "UploadPart"), NoETag))
          /\ pending' = Err("R2Operation", "UploadPart")
          /\ pc' = OnPartError
          /\ UNCHANGED parts
       \/ \* the response carries no ETag
          /\ calls' = Append(calls, Call("UploadPart", upload_id, current_part,
                                         buffer, <<>>,
                                         Err("MultipartUpload", "UploadPart"), NoETag))
          /\ pending' = Err("MultipartUpload", "UploadPart")
          /\ pc' = OnPartError
          /\ UNCHANGED parts
    /\ UNCHANGED <<file, chunk_size, concurrent_parts, inv, upload_id,
                   current_part, pos, buffer, result, earlier_ids, sessions,
                   notUpload>>

\* lines 407-411 and 351-361: best-effort abort, then return Err(e)
AbortMultipartUpload ==
    /\ pc = "abort"
    /\ \/ /\ calls' = Append(calls, Call("Abort", upload_id, 0, <<>>, <<>>, Ok, NoETag))
          /\ sessions' = [sessions EXCEPT ![upload_id] = "aborted"]
          /\ result' = PropagatedError(pending, Ok)
          /\ pc' = AfterAbort
       \/ /\ calls' = Append(calls, Call("Abort", upload_id, 0, <<>>, <<>>,
                                         Err("R2Operation", "Abort"), NoETag))
          /\ UNCHANGED sessions
          /\ result' = PropagatedError(pending, Err("R2Operation", "Abort"))
          /\ pc' = AfterAbort
    /\ UNCHANGED <<file, chunk_size, concurrent_parts, inv, upload_id, parts,
                   current_part, pos, buffer, in_flight, pending, earlier_ids,
                   notUpload>>

\* lines 415-418 and 316-348: complete_multipart_upload(key, &upload_id, parts)
CompleteMultipartUpload ==
    /\ pc = "complete"
    /\ \/ /\ calls' = Append(calls, Call("Complete", upload_id, 0, <<>>, parts, Ok, NoETag))
          /\ sessions' = [sessions EXCEPT ![upload_id] = "completed"]
          /\ Return(Ok)
       \/ /\ calls' = Append(calls, Call("Complete", upload_id, 0, <<>>, parts,
                                         Err("R2Operation", "Complete"), NoETag))
          /\ UNCHANGED sessions
          /\ Return(Err("R2Operation", "Complete"))
    /\ UNCHANGED <<file, chunk_size, concurrent_parts, inv, upload_id, parts,
                   current_part, pos, buffer, in_flight, pending, earlier_ids,
                   notUpload>>

\* the caller invokes upload_file_multipart again: fresh locals, same store
Reinvoke ==
    /\ pc = "returned"
    /\ inv < MaxInvocations
    /\ inv' = inv + 1
    /\ pc' = "open"
    /\ upload_id' = NoId
    /\ parts' = <<>>
    /\ current_part' = 0
    /\ pos' = 0
    /\ buffer' = <<>>
    /\ in_flight' = {}
    /\ pending' = NoResult
    /\ result' = NoResult
    /\ calls' = <<>>
    /\ earlier_ids' = earlier_ids \cup ({upload_id} \ {NoId})
    /\ UNCHANGED <<file, chunk_size, concurrent_parts, sessions,
                   notUpload>>

Next ==
    \/ OpenFile
    \/ CreateMultipartUpload
    \/ ReopenFile
    \/ ReadChunk
    \/ SendUploadPart
    \/ UploadPart
    \/ AbortMultipartUpload
    \/ CompleteMultipartUpload
    \/ Reinvoke

Spec == Init /\ [][Next]_vars

\* every awaited call returns: a step that can be taken is taken
SpecFair == Spec /\ WF_vars(Next)

\* ---------------------------------------------------------------- commands
\* The second specification: the commands of the CLI, one after the other,
\* over the configuration file on disk. Every handler is one step; the save
\* of the init wizard is two, the write and the change of permissions.
InitCli ==
    /\ UrlIdle
    /\ DelIdle
    /\ config_file \in ConfigFiles
    /\ cli_pc = "idle"
    /\ run = NoRun
    /\ UploadIdle
    /\ CfIdle

\* variant: the handler writes the configuration it loaded back to the
\* file, the advanced section filled in with its defaults
Done_Persisting(r) ==
    /\ run' = Finished(r, Ok)
    /\ cli_pc' = "done"
    /\ config_file' = IF r.loaded
                      THEN [config_file EXCEPT
                               !.config.advanced = Some(unwrap_or_default(@))]
                      ELSE config_file
    /\ UNCHANGED notCli

\* the handler returns: Ok(()) when nothing returned before
Done(r) ==
    /\ run' = Finished(r, Ok)
    /\ cli_pc' = "done"
    /\ UNCHANGED <<config_file, notCli>>

\* handle_config "show"
ConfigShow ==
    /\ cli_pc = "idle"
    /\ LET r == Loaded(Started("config", "show"), load_config(config_file))
       IN Done(IF Running(r) /\ Len(r.config.cloudflare.account_id) < 8
               THEN Finished(r, Panic("account_id[..8]")) ELSE r)

\* handle_config "validate"
ConfigValidate ==
    /\ cli_pc = "idle"
    /\ \E res \in S3Outcomes("ListObjectsV2") :
          Done(S3Call(KeysOrError(Validated(
                  Loaded(Started("config", "validate"), load_config(config_file)))),
               "ListObjectsV2", res))

\* what $EDITOR can leave behind: the file as it was, no file, or a file of
\* any content
EditedFiles(cf) ==
    LET modes == IF cf.exists THEN {cf.mode} ELSE FileModes
    IN {cf, AbsentFile}
       \cup {PresentFile(FALSE, BlankConfig, m) : m \in modes}
       \cup {PresentFile(TRUE, c, m) : c \in Configs, m \in modes}

\* handle_config "edit"
ConfigEdit ==
    /\ cli_pc = "idle"
    /\ \/ /\ run' = Finished(Started("config", "edit"), Err("Io", "editor"))
          /\ UNCHANGED config_file
       \/ \E after \in EditedFiles(config_file),
             success \in BOOLEAN :
             /\ config_file' = after
             /\ run' = IF success
                       THEN Finished(Validated(Loaded(Started("config", "edit"),
                                                      load_config(after))), Ok)
                       ELSE Finished(Started("config", "edit"), Ok)
    /\ cli_pc' = "done"
    /\ UNCHANGED notCli

\* handle_doctor "check" and "test-connection"
handle_doctor ==
    /\ cli_pc = "idle"
    /\ \/ Done(IF config_file.exists
               THEN Validated(Loaded(Started("doctor", "check"), load_config(config_file)))
               ELSE Started("doctor", "check"))
       \/ \E res \in S3Outcomes("ListObjectsV2") :
             Done(S3Call(KeysOrPanic(
                     Loaded(Started("doctor", "test-connection"), load_config(config_file))),
                  "ListObjectsV2", res))

\* handle_tokens: "list", "create" (the name is prompted), "revoke" (token_id)
handle_tokens ==
    /\ cli_pc = "idle"
    /\ \E action \in {"list", "create", "revoke"}, given \in BOOLEAN :
          LET op == CASE action = "list" -> "list_tokens"
                      [] action = "create" -> "create_token"
                      [] OTHER -> "revoke_token"
              r == TokenOrError(Loaded(Started("tokens", action), load_config(config_file)))
          IN \E res \in CfResults(op) :
                Done(CfCall(Required(r, given \/ action = "list", "input"), op, res))

\* variant: any bucket may be deleted
DefaultBucketGuard_None(r) == r

\* "delete": if bucket_name == config.r2.default_bucket { return Err(..) }
DefaultBucketGuard(r) ==
    IF Running(r) /\ Unwrap(r.name) = r.config.r2.default_bucket
    THEN Finished(r, Err("anyhow", "default_bucket")) ELSE r

\* handle_buckets: "list", "create", "delete", "info" | "ls"
handle_buckets ==
    /\ cli_pc = "idle"
    /\ \E name \in {None, Some("my-bucket"), Some("other")} :
          LET ld(action) == Loaded([Started("buckets", action) EXCEPT !.name = name],
                                   load_config(config_file))
              named(r) == Required(r, IsSome(name), "bucket_name")
              guarded(r) == DefaultBucketGuard(r)
          IN \/ \E res \in CfResults("list_buckets") :
                   Done(CfCall(TokenOrError(ld("list")), "list_buckets", res))
             \/ \E res \in CfResults("create_bucket") :
                   Done(CfCall(TokenOrError(named(ld("create"))), "create_bucket", res))
             \/ \E res \in CfResults("delete_bucket") :
                   Done(CfCall(TokenOrError(guarded(named(ld("delete")))),
                               "delete_bucket", res))
             \/ \E action \in {"info", "ls"}, res \in S3Outcomes("ListObjectsV2") :
                   Done(S3Call(KeysOrError(ld(action)), "ListObjectsV2", res))

\* the sizes of the local file a "files upload" is given
FileSizes == {0, MIB, MIB + 1, MULTIPART_THRESHOLD - 1, MULTIPART_THRESHOLD,
              MULTIPART_THRESHOLD + 1, 200 * MIB + 1}

\* handle_files "upload": the route, then the transfer. Both transfers open
\* the file first (an I/O error returns before any call); upload_file then
\* reads it and issues one PutObject; upload_file_multipart (the first
\* specification) panics on a chunk size of 0 and otherwise starts with
\* CreateMultipartUpload
FilesUpload ==
    /\ cli_pc = "idle"
    /\ \E file_given \in BOOLEAN, key_given \in BOOLEAN, exists \in BOOLEAN,
          file_size \in FileSizes, multipart \in BOOLEAN,
          res \in S3Outcomes("upload") \cup {Err("Io", "file")} :
          LET r == Required(Required(
                       KeysOrPanic(Loaded(Started("files", "upload"),
                                          load_config(config_file))),
                       file_given, "file"), key_given, "key")
              found == Required(r, exists, "file_not_found")
              use_multipart == multipart \/ requires_multipart_upload(file_size)
              advanced == unwrap_or_default(found.config.advanced)
              chunk == advanced.multipart_chunk_size_mb * MIB
              routed ==
                  [found EXCEPT !.upload =
                      [route |-> IF use_multipart THEN "multipart" ELSE "single",
                       file_size |-> file_size, multipart |-> multipart,
                       chunk_size |-> IF use_multipart THEN chunk ELSE 0,
                       concurrent_parts |-> IF use_multipart
                                            THEN advanced.max_concurrent_uploads ELSE 0]]
          IN Done(IF ~Running(found) THEN found
                  ELSE IF res = Err("Io", "file") THEN Finished(routed, res)
                  ELSE IF ~use_multipart THEN S3Call(routed, "PutObject", res)
                  ELSE IF TotalPartsPanics(chunk) THEN Finished(routed, Panic("chunk_size"))
                  ELSE S3Call(routed, "CreateMultipartUpload", res))

\* handle_files "download", "delete", "ls"
FilesOther ==
    /\ cli_pc = "idle"
    /\ \E action \in {"download", "delete", "ls"}, key_given \in BOOLEAN,
          dest_given \in BOOLEAN :
          LET op == CASE action = "download" -> "GetObject"
                      [] action = "delete" -> "DeleteObject"
                      [] OTHER -> "ListObjectsV2"
              r == KeysOrPanic(Loaded(Started("files", action), load_config(config_file)))
              k == Required(r, key_given \/ action = "ls", "key")
              dst == Required(k, dest_given \/ action # "download", "dest")
          IN \E res \in S3Outcomes(op) : Done(S3Call(dst, op, res))

\* handle_cors, handle_lifecycle, handle_website: the three bucket settings
\* ("set" and "delete" are "enable" and "disable" for website). "set" needs
\* its rules from the wizard or a file; website "enable" does not
BucketSettings ==
    /\ cli_pc = "idle"
    /\ \E cmd \in {"cors", "lifecycle", "website"}, action \in {"get", "set", "delete"},
          rules \in {"given", "failed", "unspecified"} :
          LET op == CASE action = "get" -> "get_bucket_" \o cmd
                      [] action = "set" -> "put_bucket_" \o cmd
                      [] OTHER -> "delete_bucket_" \o cmd
              r == TokenOrError(Loaded(Started(cmd, action), load_config(config_file)))
              ready == IF action # "set" \/ cmd = "website" \/ rules = "given" THEN r
                       ELSE IF rules = "failed" THEN Finished(r, Err("anyhow", "rules"))
                       ELSE Finished(r, Err("anyhow", "interactive_or_file"))
          IN \E res \in CfResults(op) : Done(CfCall(ready, op, res))

\* handle_urls "generate": no network; config.cloudflare.endpoint is not kept
\* in the model's ConfigFile, so whether it parses as a URI is drawn here
handle_urls ==
    /\ cli_pc = "idle"
    /\ \E key_given \in BOOLEAN, method_ok \in BOOLEAN, endpoint_ok \in BOOLEAN :
          LET r == Loaded(Required(Started("urls", "generate"), key_given, "key"),
                          load_config(config_file))
              m == Required(r, method_ok, "method")
          IN Done(IF endpoint_ok THEN m
                  ELSE Finished(m, Err("PresignedUrlConfig", "endpoint")))

\* handle_completion: the script is printed, or the shell is not supported
handle_completion ==
    /\ cli_pc = "idle"
    /\ \E supported \in BOOLEAN :
          Done(Required(Started("completion", "generate"), supported, "shell"))

\* prompt_account_id: the validator accepts an input of exactly 32
\* (alphanumeric) characters; any other input is asked for again
prompt_account_id == {id \in AccountIds : id # <<>> /\ Len(id) = ACCOUNT_ID_LEN}

\* variant: the token choice keeps a key pair next to the token
prompt_auth_method_Both ==
    {<<Some("eyJ-token"), Some("key-id"), Some("secret-key")>>,
     <<None, Some("key-id"), Some("secret-key")>>}

\* prompt_auth_method: selection 0 gives (Some(token), None, None),
\* selection 1 gives (None, Some(access_key), Some(secret_key))
prompt_auth_method ==
    {<<Some("eyJ-token"), None, None>>,
     <<None, Some("key-id"), Some("secret-key")>>}

\* prompt_bucket_name: the validator refuses the empty name (and names
\* shorter than 3 or longer than 63 characters)
prompt_bucket_name == {b \in Buckets : b # ""}

\* run_init_wizard up to the call of save_config: the ConfigFile built from
\* the answers, default_expiration 7200 and no advanced section
WizardConfigs ==
    {ConfigFile(CloudflareConfig(id, t[1], t[2], t[3]),
                R2Config(b, DEFAULT_EXPIRATION), None) :
        id \in prompt_account_id, t \in prompt_auth_method, b \in prompt_bucket_name}

run_init_wizard ==
    /\ cli_pc = "idle"
    /\ \/ /\ run' = Finished(Started("init", "prompt"), Err("Io", "prompt"))
          /\ cli_pc' = "done"
       \/ /\ run' = Finished(Started("init", "cancelled"), Ok)
          /\ cli_pc' = "done"
       \/ \E c \in WizardConfigs :
             /\ run' = [Started("init", "save") EXCEPT !.config = c]
             /\ cli_pc' = "save_write"
    /\ UNCHANGED <<config_file, notCli>>

\* save_config, first half: get_config_path, to_string_pretty, fs::write.
\* A new file gets the mode the umask leaves, an existing file keeps its own
SaveConfigWrite ==
    /\ cli_pc = "save_write"
    /\ \E m \in IF config_file.exists THEN {config_file.mode} ELSE FileModes :
          \/ /\ config_file' = PresentFile(TRUE, run.config, m)
             /\ cli_pc' = "save_perms"
             /\ run' = [run EXCEPT
                           !.written = IF config_file.exists THEN "overwritten"
                                       ELSE "created",
                           !.written_mode = m]
          \/ /\ config_file' \in {config_file, PresentFile(FALSE, BlankConfig, m)}
             /\ run' = Finished(run, Err("Config", "write"))
             /\ cli_pc' = "done"
    /\ UNCHANGED notCli

\* variant: the permissions read from the file are written back as they are
set_mode_Keep(perms) == perms

\* perms.set_mode(0o600)
set_mode(perms) == OWNER_ONLY

\* save_config, second half (cfg(unix)): metadata, set_mode, set_permissions
SaveConfigPermissions ==
    /\ cli_pc = "save_perms"
    /\ \/ /\ config_file' = [config_file EXCEPT !.mode = set_mode(@)]
          /\ run' = Finished(run, Ok)
       \/ /\ run' = Finished(run, Err("Io", "set_permissions"))
          /\ UNCHANGED config_file
    /\ cli_pc' = "done"
    /\ UNCHANGED notCli

\* the command has returned; the next one starts from the file on disk
Finish ==
    /\ cli_pc = "done"
    /\ cli_pc' = "idle"
    /\ run' = NoRun
    /\ UNCHANGED <<config_file, notCli>>

NextCli ==
    \/ ConfigShow
    \/ ConfigValidate
    \/ ConfigEdit
    \/ handle_doctor
    \/ handle_tokens
    \/ handle_buckets
    \/ FilesUpload
    \/ FilesOther
    \/ BucketSettings
    \/ handle_urls
    \/ handle_completion
    \/ run_init_wizard
    \/ SaveConfigWrite
    \/ SaveConfigPermissions
    \/ Finish

SpecCli == InitCli /\ [][NextCli]_vars

\* ---------------------------------------------------------------- one call
\* The third specification: one call of CloudflareClient, for every operation
\* and every response.
InitCf ==
    /\ UrlIdle
    /\ DelIdle
    /\ cf_pc = "send"
    /\ cf_call \in {[op |-> op, response |-> NoResponse, outcome |-> NoOutcome] :
                       op \in CfOps}
    /\ UploadIdle
    /\ CliIdle

\* .send().await?
Send ==
    /\ cf_pc = "send"
    /\ \/ \E e \in SendErrors :
             /\ cf_call' = [cf_call EXCEPT !.outcome = Outcome(e, "none", <<>>, 0)]
             /\ cf_pc' = "done"
       \/ \E resp \in Responses :
             /\ cf_call' = [cf_call EXCEPT !.response = resp]
             /\ cf_pc' = "handle"
    /\ UNCHANGED notCf

\* self.handle_response(response).await
HandleResponse ==
    /\ cf_pc = "handle"
    /\ cf_call' = [cf_call EXCEPT
                      !.outcome = handle_response(ResultType(cf_call.op), cf_call.response)]
    /\ cf_pc' = "done"
    /\ UNCHANGED notCf

NextCf ==
    \/ Send
    \/ HandleResponse

SpecCf == InitCf /\ [][NextCf]_vars

\* ---------------------------------------------------------------- urls
\* The fourth specification: urls generate run twice on the same arguments,
\* the same clock and two configurations that may differ in their
\* credentials only, then R2Client::generate_presigned_url on the same.
Clocks == {-5, 0, 1700}
ExpiresArgs == {0, 3600}

InitUrl ==
    /\ url_pc = "first"
    /\ url_in \in {[endpoint |-> e, default_bucket |-> b, credentials |-> <<c1, c2>>,
                     key |-> k, method |-> m, expires |-> x,
                     content_type |-> ct, now |-> t] :
                       e \in Endpoints, b \in {"my-bucket", "other"},
                       c1 \in CredentialSets, c2 \in CredentialSets,
                       k \in {"k", "dir/k"}, m \in MethodArgs, x \in ExpiresArgs,
                       ct \in {None, Some("text/plain")}, t \in Clocks}
    /\ url_out = [first |-> NoUrl, second |-> NoUrl, client |-> NoUrl]
    /\ UploadIdle
    /\ CliIdle
    /\ CfIdle
    /\ DelIdle

UrlsRun(n) ==
    UrlsGenerate(UrlsConfig(url_in.endpoint, url_in.credentials[n], url_in.default_bucket),
                 Some(url_in.key), url_in.method, url_in.expires, url_in.content_type,
                 url_in.now)

UrlsFirstRun ==
    /\ url_pc = "first"
    /\ url_out' = [url_out EXCEPT !.first = UrlsRun(1)]
    /\ url_pc' = "second"
    /\ UNCHANGED <<url_in, notUrl>>

UrlsSecondRun ==
    /\ url_pc = "second"
    /\ url_out' = [url_out EXCEPT !.second = UrlsRun(2)]
    /\ url_pc' = "client"
    /\ UNCHANGED <<url_in, notUrl>>

ClientGenerate ==
    /\ url_pc = "client"
    /\ url_out' = [url_out EXCEPT !.client =
                      R2Client_generate_presigned_url(url_in.endpoint,
                          url_in.default_bucket, url_in.key, url_in.expires, url_in.now)]
    /\ url_pc' = "done"
    /\ UNCHANGED <<url_in, notUrl>>

NextUrl ==
    \/ UrlsFirstRun
    \/ UrlsSecondRun
    \/ ClientGenerate

SpecUrl == InitUrl /\ [][NextUrl]_vars

\* ---------------------------------------------------------------- delete_objects
\* The fifth specification: one call of R2Client::delete_objects on a list of
\* keys (repetitions allowed) against a bucket holding some of the objects.
ObjectKeys == {"a", "b", "c"}
KeyLists == UNION {[1..n -> ObjectKeys] : n \in 0..MaxKeys}

InitDel ==
    /\ UploadIdle /\ CliIdle /\ CfIdle /\ UrlIdle
    /\ del_pc = "loop"
    /\ del_keys \in KeyLists
    /\ del_next = 1
    /\ del_objects \in SUBSET ObjectKeys
    /\ del_calls = <<>>
    /\ del_result = NoResult

\* variant: a failed delete is skipped and the loop goes on
OnDeleteError_Continue == "loop"

\* self.delete_object(&key).await?  the `?` returns the error from the loop
OnDeleteError == "returned"

\* lines 212-214 and 199-208: the DeleteObject request for the next key. A
\* request that fails may or may not have removed the object before failing
DeleteObject ==
    /\ del_pc = "loop"
    /\ del_next <= Len(del_keys)
    /\ LET key == del_keys[del_next] IN
       \/ /\ del_calls' = Append(del_calls, [key |-> key, result |-> Ok])
          /\ del_objects' = del_objects \ {key}
          /\ UNCHANGED <<del_pc, del_result>>
       \/ /\ del_calls' = Append(del_calls,
                                 [key |-> key, result |-> Err("R2Operation", "DeleteObject")])
          /\ del_objects' \in {del_objects, del_objects \ {key}}
          /\ del_result' = Err("R2Operation", "DeleteObject")
          /\ del_pc' = OnDeleteError
    /\ del_next' = del_next + 1
    /\ UNCHANGED <<del_keys, notDel>>

\* line 215: the list is exhausted, Ok(())
DeleteObjectsReturn ==
    /\ del_pc = "loop"
    /\ del_next > Len(del_keys)
    /\ del_result' = IF del_result = NoResult THEN Ok ELSE del_result
    /\ del_pc' = "returned"
    /\ UNCHANGED <<del_keys, del_next, del_objects, del_calls, notDel>>

NextDel ==
    \/ DeleteObject
    \/ DeleteObjectsReturn

SpecDel == InitDel /\ [][NextDel]_vars

\* ---------------------------------------------------------------- claims
UploadCalls == SelectSeq(calls, LAMBDA c : c.op = "UploadPart")
CompleteCalls == SelectSeq(calls, LAMBDA c : c.op = "Complete")
AbortCalls == SelectSeq(calls, LAMBDA c : c.op = "Abort")

Returned == pc = "returned"
SomePartFailed == \E i \in 1..Len(UploadCalls) : UploadCalls[i].result.tag = "Err"

RECURSIVE Concat(_)
Concat(ss) == IF ss = <<>> THEN <<>> ELSE Head(ss) \o Concat(Tail(ss))

IsPrefix(a, b) == Len(a) <= Len(b) /\ SubSeq(b, 1, Len(a)) = a

\* ceil(n / c) for c >= 1, by its defining property
Ceil(n, c) == CHOOSE k \in 0..n : k * c >= n /\ (k = 0 \/ (k - 1) * c < n)

\* the payloads of the UploadPart calls in ascending part-number order
\* (calls with equal part numbers in the order they were issued)
PayloadsByPartNumber ==
    LET n == Len(UploadCalls)
        Before(j, i) == \/ UploadCalls[j].part_number < UploadCalls[i].part_number
                        \/ /\ UploadCalls[j].part_number = UploadCalls[i].part_number
                           /\ j <= i
        Rank(i) == Cardinality({j \in 1..n : Before(j, i)})
    IN [k \in 1..n |-> UploadCalls[CHOOSE i \in 1..n : Rank(i) = k].body]

\* C1: whenever an invocation that obtained an upload id has returned, with Ok
\* or with any error, its session is completed or aborted at the store.
C1_SessionClosedOnReturn ==
    (Returned /\ upload_id # NoId) => sessions[upload_id] \in {"completed", "aborted"}

\* C2: if an UploadPart call of the invocation failed, no CompleteMultipartUpload
\* call is issued for the session, never more than one AbortMultipartUpload call
\* is issued, and by the return exactly one was issued, for that session.
C2_FailedPartAbortsOnce ==
    SomePartFailed =>
        /\ Len(CompleteCalls) = 0
        /\ Len(AbortCalls) <= 1
        /\ \A i \in 1..Len(AbortCalls) : AbortCalls[i].upload_id = upload_id
        /\ Returned => Len(AbortCalls) = 1

C2_Witness ==
    /\ Returned
    /\ SomePartFailed
    /\ Len(UploadCalls) >= 2
    /\ Len(AbortCalls) = 1

\* C3: a successful upload of a file of N bytes with chunk size C issued exactly
\* ceil(N/C) UploadPart calls, numbered exactly 1..ceil(N/C) without duplicates.
C3_PartCountIsCeil ==
    (Returned /\ result = Ok) =>
        /\ Len(UploadCalls) = Ceil(Len(file), chunk_size)
        /\ {UploadCalls[i].part_number : i \in 1..Len(UploadCalls)}
              = 1..Ceil(Len(file), chunk_size)

\* C4: the payloads of the UploadPart calls, concatenated in ascending
\* part-number order, are at every moment a prefix of the file, and are exactly
\* the file once the loop has ended and the completion call is issued.
C4_ConcatReproducesFile ==
    /\ IsPrefix(Concat(PayloadsByPartNumber), file)
    /\ Len(CompleteCalls) > 0 => Concat(PayloadsByPartNumber) = file

C4_Witness ==
    /\ Returned
    /\ result = Ok
    /\ Len(file) = MaxFileLen
    /\ Len(UploadCalls) >= 3
    /\ Len(UploadCalls[1].body) < BufferLen(chunk_size)

\* C5: for a zero-byte file the invocation uploads no part, does not return Ok
\* and no CompleteMultipartUpload call of it succeeds.
C5_EmptyFileIsRejected ==
    (Len(file) = 0 /\ Returned) =>
        /\ Len(UploadCalls) = 0
        /\ result.tag = "Err"
        /\ \A i \in 1..Len(CompleteCalls) : CompleteCalls[i].result.tag = "Err"

\* C6: a CompleteMultipartUpload call is issued at most once, only after every
\* UploadPart call of the invocation, all of which succeeded, and it lists every
\* uploaded part once, in ascending part-number order, with the ETag the store
\* returned for it; an invocation that returned Ok issued it as its last call.
C6_SingleCompleteListsAllParts ==
    /\ Len(CompleteCalls) <= 1
    /\ \A j \in 1..Len(calls) : calls[j].op = "Complete" =>
          /\ \A i \in 1..Len(calls) : calls[i].op = "UploadPart" =>
                i < j /\ calls[i].result = Ok
          /\ calls[j].parts =
                [k \in 1..Len(UploadCalls) |->
                    [part_number |-> UploadCalls[k].part_number,
                     etag |-> UploadCalls[k].etag]]
          /\ \A k \in 1..(Len(calls[j].parts) - 1) :
                calls[j].parts[k].part_number < calls[j].parts[k + 1].part_number
    /\ (Returned /\ result = Ok) =>
          Len(CompleteCalls) = 1 /\ calls[Len(calls)].op = "Complete"

C6_Witness ==
    /\ Returned
    /\ result = Ok
    /\ Len(UploadCalls) >= 2
    /\ UploadCalls[1].etag # UploadCalls[2].etag

\* C7: every UploadPart payload except the last one of the invocation has
\* exactly the configured chunk size.
C7_OnlyLastPartShort ==
    \A i \in 1..Len(UploadCalls) :
        i < Len(UploadCalls) => Len(UploadCalls[i].body) = chunk_size

\* C8: when an UploadPart call failed and the abort call after it failed too,
\* the invocation has returned and its result is the error of the UploadPart
\* call, unchanged.
C8_AbortFailureKeepsPartError ==
    \A j \in 2..Len(calls) :
        ( /\ calls[j].op = "Abort"
          /\ calls[j].result.tag = "Err"
          /\ calls[j - 1].op = "UploadPart"
          /\ calls[j - 1].result.tag = "Err" ) =>
        /\ Returned
        /\ result = calls[j - 1].result

C8_Witness ==
    /\ Returned
    /\ Len(calls) >= 2
    /\ calls[Len(calls)].op = "Abort"
    /\ calls[Len(calls)].result.tag = "Err"
    /\ calls[Len(calls) - 1].op = "UploadPart"
    /\ calls[Len(calls) - 1].result = Err("MultipartUpload", "UploadPart")

\* C9: within one invocation no part number occurs in two UploadPart calls, and
\* a failed UploadPart call is the last UploadPart call of the invocation.
C9_NoRetry ==
    /\ \A i, j \in 1..Len(UploadCalls) :
          i # j => UploadCalls[i].part_number # UploadCalls[j].part_number
    /\ \A i \in 1..Len(UploadCalls) :
          UploadCalls[i].result.tag = "Err" => i = Len(UploadCalls)

C9_Witness ==
    /\ Returned
    /\ Len(UploadCalls) >= 3
    /\ UploadCalls[Len(UploadCalls)].result.tag = "Err"
    /\ pos < Len(file)

\* C10: an invocation issues CreateMultipartUpload before any other call, every
\* UploadPart, Complete and Abort call carries the upload id that call returned,
\* no call carries an id handed to an earlier invocation, and the first part is
\* part 1 holding the first bytes of the file.
C10_OwnUploadIdOnly ==
    /\ upload_id \notin earlier_ids
    /\ \A j \in 1..Len(calls) :
          /\ calls[j].upload_id \notin earlier_ids
          /\ (j = 1) <=> (calls[j].op = "Create")
          /\ j > 1 => /\ calls[1].result = Ok
                      /\ calls[j].upload_id = calls[1].upload_id
                      /\ calls[j].upload_id = upload_id
    /\ Len(UploadCalls) > 0 =>
          /\ UploadCalls[1].part_number = 1
          /\ UploadCalls[1].body = SubSeq(file, 1, Len(UploadCalls[1].body))

C10_Witness ==
    /\ inv >= 2
    /\ \E id \in earlier_ids : sessions[id] = "aborted"
    /\ Len(UploadCalls) >= 2
    /\ Len(AbortCalls) = 1
    /\ Returned

\* C11: for every value of concurrent_parts at most one UploadPart request is
\* outstanding; it is the one for current_part, and every earlier part has been
\* answered before it was sent.
C11_OneUploadInFlight ==
    /\ Cardinality(in_flight) <= 1
    /\ in_flight # {} =>
          /\ in_flight = {current_part}
          /\ Len(UploadCalls) = current_part - 1
          /\ \A i \in 1..Len(UploadCalls) :
                UploadCalls[i].part_number < current_part /\ UploadCalls[i].result = Ok

C11_Witness ==
    /\ concurrent_parts = DEFAULT_CONCURRENT_PARTS
    /\ in_flight = {3}
    /\ Len(UploadCalls) = 2

\* C12: no UploadPart call carries an empty payload, also when the file size is
\* a multiple of the chunk size and the loop ends on a zero-byte read.
C12_NoEmptyPart ==
    /\ \A i \in 1..Len(UploadCalls) : Len(UploadCalls[i].body) >= 1
    /\ in_flight # {} => Len(buffer) >= 1

C12_Witness ==
    /\ Returned
    /\ result = Ok
    /\ chunk_size = 2
    /\ Len(file) = 2 * chunk_size
    /\ Len(UploadCalls) = 2
    /\ current_part = 3

\* C13: every UploadPart payload has at most chunk_size bytes and at most
\* PART_LIMIT bytes, so a chunk size above the cap is clamped to the cap.
C13_PartWithinClampedChunk ==
    \A i \in 1..Len(UploadCalls) :
        /\ Len(UploadCalls[i].body) <= chunk_size
        /\ Len(UploadCalls[i].body) <= PART_LIMIT

C13_Witness ==
    /\ chunk_size > PART_LIMIT
    /\ Len(file) > PART_LIMIT
    /\ \E i \in 1..Len(UploadCalls) : Len(UploadCalls[i].body) = PART_LIMIT

\* ---------------------------------------------------------------- C14
\* C14: validate_config accepts a configuration only if exactly one
\* authentication mode is populated: the API token, or the access-key pair
\* (access_key_id and secret_access_key), not both and not neither.
ValidationRan == run.validation # NoResult
TokenPopulated == IsSome(run.config.cloudflare.api_token)
KeyPairPopulated ==
    /\ IsSome(run.config.cloudflare.access_key_id)
    /\ IsSome(run.config.cloudflare.secret_access_key)

C14_ExactlyOneAuthMode ==
    (ValidationRan /\ run.validation = Ok) => (TokenPopulated # KeyPairPopulated)

\* ---------------------------------------------------------------- C15
\* C15: validate_config returns Ok exactly when the account id has length
\* 32, an authentication method is configured (the token, or both access
\* keys; a lone key without a token is rejected), the default bucket is
\* non-empty and the default expiration is at most 604800 seconds; it
\* returns an error when any of these fails.
C15_ValidConfiguration ==
    /\ Len(run.config.cloudflare.account_id) = 32
    /\ TokenPopulated \/ KeyPairPopulated
    /\ run.config.r2.default_bucket # ""
    /\ run.config.r2.default_expiration <= 604800

C15_OkExactlyWhenValid ==
    ValidationRan =>
        /\ (run.validation = Ok) <=> C15_ValidConfiguration
        /\ run.validation # Ok =>
              /\ run.validation.tag = "Err"
              /\ run.result = run.validation

C15_Witness ==
    /\ run.cmd = "config" /\ run.action = "validate"
    /\ run.validation = Ok
    /\ run.config.r2.default_expiration = 604800
    /\ ~TokenPopulated /\ KeyPairPopulated

\* ---------------------------------------------------------------- C16
\* C16: for every command that talks to the network (files, buckets, tokens,
\* cors, lifecycle, website, config validate, doctor test-connection), if the
\* configuration file is missing or its content violates the configuration
\* invariants (account id length, authentication mode, bucket name,
\* expiration bound), the command reports an error and issues no network call.
\* (A command that dies in a panic before any call is counted as reporting.)
C16_NetworkCommand ==
    \/ run.cmd \in {"files", "buckets", "tokens", "cors", "lifecycle", "website"}
    \/ run.cmd = "config" /\ run.action = "validate"
    \/ run.cmd = "doctor" /\ run.action = "test-connection"

C16_FileMissingOrInvalid ==
    \/ ~config_file.exists
    \/ ~config_file.parses
    \/ Len(config_file.config.cloudflare.account_id) # 32
    \/ /\ ~IsSome(config_file.config.cloudflare.api_token)
       /\ ~(/\ IsSome(config_file.config.cloudflare.access_key_id)
            /\ IsSome(config_file.config.cloudflare.secret_access_key))
    \/ config_file.config.r2.default_bucket = ""
    \/ config_file.config.r2.default_expiration > 604800

C16_InvalidConfigReportedBeforeNetwork ==
    (cli_pc = "done" /\ C16_NetworkCommand /\ C16_FileMissingOrInvalid) =>
        /\ run.result.tag \in {"Err", "panic"}
        /\ run.net_calls = <<>>

\* ---------------------------------------------------------------- C17
\* C17: after save_config returns Ok on a Unix system, the configuration
\* file's permissions are owner read/write only (mode 0600 = 384), both when
\* the file was newly created and when an existing file with broader
\* permissions was overwritten.
SaveReturnedOk ==
    /\ cli_pc = "done"
    /\ run.cmd = "init" /\ run.action = "save"
    /\ run.result = Ok

C17_SavedFileIsOwnerOnly ==
    SaveReturnedOk =>
        /\ run.written \in {"created", "overwritten"}
        /\ config_file.exists
        /\ config_file.mode = 384

C17_Witness ==
    /\ SaveReturnedOk
    /\ run.written = "overwritten"
    /\ run.written_mode = 420
    /\ config_file.mode = 384

\* ---------------------------------------------------------------- C18
\* C18: the persisted configuration changes only through the confirmed init
\* wizard save or config edit: every run of tokens, buckets, files, urls,
\* cors, lifecycle, website, doctor, completion, config show and config
\* validate leaves the configuration file's content unchanged, whether the
\* command succeeds or fails.
Content(cf) == [exists |-> cf.exists, parses |-> cf.parses, config |-> cf.config]

C18_ReadOnlyCommand(r) ==
    \/ r.cmd \in {"tokens", "buckets", "files", "urls", "cors", "lifecycle",
                  "website", "doctor", "completion"}
    \/ r.cmd = "config" /\ r.action \in {"show", "validate"}

UploadRouted == cli_pc = "done" /\ run.upload.route # "none"
ConfiguredChunkMb ==
    IF run.config.advanced = <<>> THEN 100
    ELSE run.config.advanced[1].multipart_chunk_size_mb

C19_ThresholdFollowsConfiguration ==
    UploadRouted =>
        ((run.upload.route = "multipart") <=>
            (run.upload.multipart \/ run.upload.file_size > ConfiguredChunkMb * 1048576))

\* C19 (amended): files upload takes the multipart path exactly when
\* --multipart is given or the file is larger than the fixed 104857600 bytes
\* (strictly greater), whatever the configured multipart settings are; a file
\* of exactly 104857600 bytes without the flag is sent with a single
\* PutObject. The configured settings set the part size and the concurrency
\* of the multipart path only.
C19_ThresholdIsFixed ==
    UploadRouted =>
        /\ (run.upload.route = "multipart") <=>
              (run.upload.multipart \/ run.upload.file_size > 104857600)
        /\ run.upload.route = "single" =>
              /\ \A i \in 1..Len(run.net_calls) : run.net_calls[i] = "PutObject"
              /\ Len(run.net_calls) <= 1
        /\ run.upload.route = "multipart" =>
              /\ run.upload.chunk_size = ConfiguredChunkMb * 1048576
              /\ "PutObject" \notin {run.net_calls[i] : i \in 1..Len(run.net_calls)}

C19_Witness ==
    /\ UploadRouted
    /\ run.upload.file_size = 104857600
    /\ ~run.upload.multipart
    /\ ConfiguredChunkMb = 1
    /\ run.upload.route = "single"
    /\ run.net_calls = <<"PutObject">>
    /\ run.result = Ok

\* ---------------------------------------------------------------- C20
\* C20: handle_response returns the envelope's result exactly when the HTTP
\* status is 2xx and the envelope's success flag is true; a 2xx response with
\* success=false yields a CloudflareApi error carrying the envelope's error
\* messages; 401 yields Authentication, 403 PermissionDenied, 404 NotFound,
\* any other non-2xx status CloudflareApi; no non-success outcome is Ok.
ResponseHandled == cf_pc = "done" /\ cf_call.response # NoResponse
Is2xx(status) == status \in 200..299

C20_HandleResponseContract ==
    ResponseHandled =>
        LET status == cf_call.response.status
            body == cf_call.response.body
            out == cf_call.outcome
        IN /\ (out.result = Ok) <=> (Is2xx(status) /\ body.envelope /\ body.success)
           /\ out.result = Ok => out.value = body.result
           /\ (Is2xx(status) /\ body.envelope /\ ~body.success) =>
                 /\ out.result.tag = "Err" /\ out.result.kind = "CloudflareApi"
                 /\ \A i \in 1..Len(body.errors) :
                       \E j \in 1..Len(out.message) : out.message[j] = body.errors[i]
           /\ status = 401 => out.result.kind = "Authentication"
           /\ status = 403 => out.result.kind = "PermissionDenied"
           /\ status = 404 => out.result.kind = "NotFound"
           /\ (~Is2xx(status) /\ status \notin {401, 403, 404}) =>
                 out.result.kind = "CloudflareApi"

\* ---------------------------------------------------------------- C21
\* C21: the URL of urls generate is built only from the endpoint host, the
\* bucket, the key, the method, the expiry and the current time: two runs
\* that differ only in the configured credentials return the same URL, and
\* no piece of the URL is a credential.
SecretsOf(c) ==
    {c.api_token[i] : i \in 1..Len(c.api_token)}
    \cup {c.access_key_id[i] : i \in 1..Len(c.access_key_id)}
    \cup {c.secret_access_key[i] : i \in 1..Len(c.secret_access_key)}
Pieces(u) == {u.url[i] : i \in 1..Len(u.url)}
BothRunsDone == url_pc \in {"client", "done"}

C21_UrlIndependentOfCredentials ==
    BothRunsDone =>
        /\ url_out.first = url_out.second
        /\ Pieces(url_out.first) \cap SecretsOf(url_in.credentials[1]) = {}
        /\ Pieces(url_out.second) \cap SecretsOf(url_in.credentials[2]) = {}

C21_Witness ==
    /\ BothRunsDone
    /\ url_in.credentials[1] # url_in.credentials[2]
    /\ IsSome(url_in.credentials[1].api_token)
    /\ IsSome(url_in.credentials[2].secret_access_key)
    /\ url_out.first.result = Ok
    /\ url_in.method = "PUT"

\* ---------------------------------------------------------------- C29
\* C29: for every method the URL returned by presigned::generate_presigned_url
\* is https://<host>/<bucket>/<key> followed by a well-formed query string (a
\* single '?' introduces the first parameter, later ones are joined with
\* '&'), the expires parameter equals the current time plus expires_in, and
\* for GET the URL has the shape R2Client::generate_presigned_url returns.
SubSeqFrom(q, i) == SubSeq(q, i, Len(q))
WellFormedQuery(q) ==
    /\ Len(q) >= 2
    /\ q[1] = "?"
    /\ \A i \in 2..Len(q) : q[i] # "?"
ExpiresParameter(q) ==
    {q[i + 1] : i \in {j \in 1..(Len(q) - 1) : q[j] = "expires="}}

C29_WellFormedUrl ==
    (url_pc = "done" /\ url_out.first.result = Ok) =>
        LET u == url_out.first.url
        IN /\ Len(u) > 6
           /\ SubSeq(u, 1, 6) = <<"https://", Unwrap(url_in.endpoint.host), "/",
                                  url_in.default_bucket, "/", url_in.key>>
           /\ WellFormedQuery(SubSeqFrom(u, 7))
           /\ ExpiresParameter(u) = {ToString(url_in.now + url_in.expires)}
           /\ url_in.method \in {"get", "GET"} => url_out.client.url = u

\* ---------------------------------------------------------------- C22
\* C22: for every finite file and every chunk size of at least 1 byte, if
\* every store call returns, upload_file_multipart terminates; at most N
\* UploadPart calls are made for a file of N bytes.
C22_Terminates ==
    /\ [](Len(UploadCalls) <= Len(file))
    /\ (chunk_size >= 1 /\ pc = "open") ~> (pc = "returned")

C22_Witness ==
    /\ pc = "returned"
    /\ result = Ok
    /\ Len(file) = 3
    /\ Len(UploadCalls) = 3

\* ---------------------------------------------------------------- C23
CreateFailed ==
    /\ Len(calls) >= 1
    /\ calls[1].op = "Create"
    /\ calls[1].result.tag = "Err"

\* C23: if CreateMultipartUpload fails or returns no upload id,
\* upload_file_multipart returns that error and has issued no UploadPart, no
\* CompleteMultipartUpload and no AbortMultipartUpload call.
C23_CreateFailureReturnsAtOnce ==
    CreateFailed =>
        /\ pc = "returned"
        /\ result = calls[1].result
        /\ Len(calls) = 1
        /\ UploadCalls = <<>> /\ CompleteCalls = <<>> /\ AbortCalls = <<>>
        /\ upload_id = NoId

C23_Witness ==
    /\ CreateFailed
    /\ pc = "returned"
    /\ result = Err("MultipartUpload", "Create")
    /\ Len(file) >= 1
    /\ inv = 2

\* ---------------------------------------------------------------- C24
\* save_config has written the new content and has not yet returned, or has
\* just returned
NewContentStored ==
    /\ cli_pc \in {"save_perms", "done"}
    /\ run.cmd = "init" /\ run.action = "save"
    /\ run.written \in {"created", "overwritten"}
    /\ config_file.exists /\ config_file.parses
    /\ config_file.config = run.config

\* C24: at every point during save_config, whenever the configuration file
\* holds the newly written content, its permissions are owner-only (0600):
\* no intermediate state, also when the file did not exist before or when
\* setting the permissions fails, stores the new content with broader
\* permissions.
C24_NewContentAlwaysOwnerOnly ==
    NewContentStored => config_file.mode = OWNER_ONLY

\* ---------------------------------------------------------------- C25
FilesReturned == cli_pc = "done" /\ run.cmd = "files"

\* C25: handle_files issues S3 calls only when the configuration has no
\* api_token and has both access keys; when api_token is set, also next to
\* access keys, every files subcommand returns an error before any network
\* call, and no file operation proceeds with missing credentials.
C25_FilesNeedAccessKeysOnly ==
    FilesReturned =>
        LET cf == run.config.cloudflare IN
        /\ run.net_calls # <<>> =>
               /\ run.loaded
               /\ ~IsSome(cf.api_token)
               /\ IsSome(cf.access_key_id) /\ IsSome(cf.secret_access_key)
        /\ (run.loaded /\ IsSome(cf.api_token)) =>
               /\ run.result = Err("anyhow", "api_token_not_supported")
               /\ run.net_calls = <<>>
        /\ (run.loaded /\ ~(IsSome(cf.access_key_id) /\ IsSome(cf.secret_access_key))) =>
               /\ run.result # Ok
               /\ run.net_calls = <<>>

C25_Witness ==
    /\ FilesReturned
    /\ run.action \in {"upload", "download", "delete", "ls"}
    /\ run.loaded
    /\ IsSome(run.config.cloudflare.api_token)
    /\ IsSome(run.config.cloudflare.access_key_id)
    /\ IsSome(run.config.cloudflare.secret_access_key)
    /\ run.result.tag = "Err"
    /\ run.net_calls = <<>>

\* ---------------------------------------------------------------- C26
DeleteOfDefaultBucket ==
    /\ cli_pc = "done"
    /\ run.cmd = "buckets" /\ run.action = "delete"
    /\ run.loaded
    /\ IsSome(run.name)
    /\ Unwrap(run.name) = run.config.r2.default_bucket

\* C26: buckets delete never deletes the configured default bucket: when the
\* given name equals config.r2.default_bucket the command returns an error
\* and issues no delete-bucket request, and the guard comes before the API
\* token is looked up.
C26_DefaultBucketIsNotDeleted ==
    DeleteOfDefaultBucket =>
        /\ run.result = Err("anyhow", "default_bucket")
        /\ run.net_calls = <<>>

C26_Witness ==
    /\ DeleteOfDefaultBucket
    /\ ~IsSome(run.config.cloudflare.api_token)
    /\ run.result = Err("anyhow", "default_bucket")

\* ---------------------------------------------------------------- C27
WizardSaving ==
    /\ cli_pc \in {"save_write", "save_perms", "done"}
    /\ run.cmd = "init" /\ run.action = "save"

OneAuthMode(c) ==
    \/ /\ IsSome(c.api_token)
       /\ ~IsSome(c.access_key_id) /\ ~IsSome(c.secret_access_key)
    \/ /\ ~IsSome(c.api_token)
       /\ IsSome(c.access_key_id) /\ IsSome(c.secret_access_key)

\* the configuration handed to save_config, and the one the file holds once
\* save_config has written it
C27_SavedConfigIsValid ==
    WizardSaving =>
        /\ validate_config(run.config) = Ok
        /\ OneAuthMode(run.config.cloudflare)
        /\ run.written \in {"created", "overwritten"} =>
               (config_file.parses => config_file.config = run.config)

\* a declined confirmation returns Ok without a call of save_config
C27_DeclinedReturns ==
    (run.cmd = "init" /\ run.action = "cancelled") =>
        /\ cli_pc = "done"
        /\ run.result = Ok
        /\ run.written = "none"

C27_DeclinedLeavesFile ==
    (run'.cmd = "init" /\ run'.action = "cancelled") => config_file' = config_file

\* C27: every configuration saved by the init wizard satisfies
\* validate_config and has exactly one authentication mode populated; if the
\* user declines the confirmation, save_config is not called and the
\* configuration file is unchanged.
C27_WizardSavesValidConfig ==
    /\ [](C27_SavedConfigIsValid /\ C27_DeclinedReturns)
    /\ [][C27_DeclinedLeavesFile]_vars

C27_Witness ==
    /\ WizardSaving
    /\ cli_pc = "done"
    /\ run.result = Ok
    /\ run.written = "overwritten"
    /\ ~IsSome(run.config.cloudflare.api_token)
    /\ config_file.config = run.config

\* ---------------------------------------------------------------- C28
DeleteFailed == del_pc = "returned" /\ del_result.tag = "Err"

\* C28: delete_objects deletes the keys in the given order and stops at the
\* first failure: keys before the failing one have been deleted and stay
\* deleted (no rollback), the failing key's error is returned, and no delete
\* request is issued for any later key.
C28_StopsAtFirstFailure ==
    /\ Len(del_calls) <= Len(del_keys)
    /\ \A i \in 1..Len(del_calls) : del_calls[i].key = del_keys[i]
    /\ \A i \in 1..(Len(del_calls) - 1) :
          /\ del_calls[i].result = Ok
          /\ del_keys[i] \notin del_objects
    /\ DeleteFailed =>
          /\ del_calls # <<>>
          /\ del_calls[Len(del_calls)].result = del_result
    /\ (del_pc = "returned" /\ del_result = Ok) =>
          /\ Len(del_calls) = Len(del_keys)
          /\ \A i \in 1..Len(del_keys) : del_keys[i] \notin del_objects

C28_Witness ==
    /\ DeleteFailed
    /\ Len(del_keys) = 3
    /\ Len(del_calls) = 2
    /\ del_keys[1] \notin del_objects
    /\ del_keys[3] \in del_objects
    /\ del_keys[3] \notin {del_keys[1], del_keys[2]}

\* ---------------------------------------------------------------- C30
\* C30: when the configured chunk size is 0, a multipart upload fails
\* without opening an upload session: no CreateMultipartUpload, UploadPart
\* or CompleteMultipartUpload call is issued and no object is created.
C30_ZeroChunkSizeOpensNoSession ==
    chunk_size = 0 =>
        /\ calls = <<>>
        /\ sessions = <<>>
        /\ upload_id = NoId
        /\ pc \in {"open", "panicked", "returned"}
        /\ pc = "returned" => result = Err("Io", "open")

C30_Witness ==
    /\ chunk_size = 0
    /\ pc = "panicked"
    /\ Len(file) >= 1
    /\ calls = <<>>

====
